---- MODULE Spec2Model ----
(***************************************************************************)
(* A model of three programs of crun:                                      *)
(*   - src/update.c : the "update" command (option table, set_value,       *)
(*     build_file, parse_opt, crun_command_update);                        *)
(*   - tests/init.c : the "check-feature seccomp-listener" probe;          *)
(*   - src/spec.c   : the "spec" command (crun_command_spec);              *)
(* and of the notification session of the design document, whose code is   *)
(* not part of the sources at hand.                                        *)
(*                                                                         *)
(* C strings are sequences of one-character strings; a C string literal    *)
(* whose characters no code inspects (a section name, a key) is kept as    *)
(* the one-element sequence <<"literal">>.  The null pointer is NULL.      *)
(***************************************************************************)
EXTENDS Integers, Sequences, FiniteSets, TLC

VARIABLES
    \* ---- update command (src/update.c)
    values,       \* static const char *values[LAST_VALUE - FIRST_VALUE], 0-based
    resources,    \* static char *resources
    upc,          \* position of the update command: "argp" | "done"
    nopts,        \* number of parse_opt calls made by argp_parse so far
    lastRet,      \* what the latest parse_opt call returned
    reordered,    \* an option was given after one with a larger id
    status,       \* how the command ended: "running" | "exit_failure" | "init_error" | "returned"
    called,       \* which libcrun entry point was invoked, "none" if none
    content,      \* the generator calls whose bytes were handed to libcrun_container_update
    \* ---- check-feature seccomp-listener (tests/init.c)
    have_seccomp, \* the build defines HAVE_SECCOMP
    kernel,       \* what the kernel and the environment allow: [listener, nnp, stdin]
    ppc,          \* position of the parent: "start" | "wait" | "exited"
    cpc,          \* position of the child: "none" | "prctl" | "seccomp" | "exited" | "killed"
    nnp,          \* the child's no-new-privileges bit
    installs,     \* the filter installs attempted: <<[nnp, fd]>>
    ret,          \* the child's ret, the result of syscall_seccomp
    wstatus,      \* the child's wait status: "none" | "exit0" | "exit1" | "signaled"
    eintr,        \* waitpid calls that were interrupted
    reaped,       \* waitpid returned the child
    exitcode,     \* the exit status of the probe, -1 while it runs
    \* ---- notification session (design, section 4.4 and 5)
    sstate,       \* "Uninstalled" | "ListenerInstalled" | "Brokering" | "Closed"
    snnp,         \* no-new-privileges is set for the monitored process
    descriptor,   \* the notification descriptor: "none" | "bridge" | "agent" | "released"
    nextId,       \* the id the kernel gives the next notification
    pending,      \* ids awaiting a verdict
    verdict,      \* the verdict applied to each id, "none" if none yet
    teardown,     \* why the session is being torn down, "none" if it is not
    atTeardown,   \* the ids that were pending when the teardown began
    \* ---- spec command (src/spec.c)
    euid,         \* geteuid ()
    fpc,          \* position of crun_command_spec
    config,       \* config.json: "absent", or its content
    f,            \* the stream f: "NULL" | "open" | "closed"
    fret,         \* ret
    closes,       \* fclose calls made on the stream f
    overwrote,    \* fopen truncated a config.json that existed
    others,       \* steps taken by other processes on config.json
    result        \* what crun_command_spec returned: "none" | "error" | "ok"

uvars == <<values, resources, upc, nopts, lastRet, reordered, status, called, content>>

pvars == <<have_seccomp, kernel, ppc, cpc, nnp, installs, ret, wstatus, eintr, reaped, exitcode>>

svars == <<sstate, snnp, descriptor, nextId, pending, verdict, teardown, atTeardown>>

fvars == <<euid, fpc, config, f, fret, closes, overwrote, others, result>>

vars == <<uvars, pvars, svars, fvars>>

(***************************************************************************)
(* Bounds of the model.                                                    *)
(***************************************************************************)
\* parse_opt calls per command line
MaxArgs == 2
\* interrupted waitpid calls of the probe
MaxEintr == 1
\* notifications the kernel issues in one session
MaxNotifications == 3
\* steps of other processes on config.json while the spec command runs
MaxOthers == 2
\* width in bits of long / unsigned long (64 on LP64, scaled down so that
\* the values around LONG_MAX and ULONG_MAX are written with two digits)
WordBits == 4

NULL == <<"NULL">>

ULONG_MAX == 2 ^ WordBits - 1
LONG_MAX == 2 ^ (WordBits - 1) - 1

\* the option texts a command line may carry
RawValues ==
    { <<>>, <<"7">>, <<"9">>, <<"1", "9">>, <<"0", "-", "3">>, <<"-", "1">> }

\* the FILE arguments of --resources
Paths == { <<"r", ".", "j">> }

(***************************************************************************)
(* The option ids and the tables, update.c:37-91.                          *)
(***************************************************************************)
FIRST_VALUE == 1000
BLKIO_WEIGHT == FIRST_VALUE
CPU_PERIOD == FIRST_VALUE + 1
CPU_QUOTA == FIRST_VALUE + 2
CPU_SHARE == FIRST_VALUE + 3
CPU_RT_PERIOD == FIRST_VALUE + 4
CPU_RT_RUNTIME == FIRST_VALUE + 5
CPUSET_CPUS == FIRST_VALUE + 6
CPUSET_MEMS == FIRST_VALUE + 7
KERNEL_MEMORY == FIRST_VALUE + 8
KERNEL_MEMORY_TCP == FIRST_VALUE + 9
MEMORY == FIRST_VALUE + 10
MEMORY_RESERVATION == FIRST_VALUE + 11
MEMORY_SWAP == FIRST_VALUE + 12
PIDS_LIMIT == FIRST_VALUE + 13
LAST_VALUE == FIRST_VALUE + 14

\* the key of --resources, the character 'r'
KEY_r == 114
\* argp's special keys (argp.h); parse_opt names ARGP_KEY_NO_ARGS only
ARGP_KEY_ARG == 0
ARGP_KEY_NO_ARGS == 16777218

YAJL_STR(x) == <<x>>

\* sections[], 0-based as in C
sections ==
    [i \in 0..3 |->
        CASE i = 0 -> YAJL_STR("blockIO")
          [] i = 1 -> YAJL_STR("cpu")
          [] i = 2 -> YAJL_STR("memory")
          [] i = 3 -> YAJL_STR("pids")]

n_sections == 4

Desc(id, section, key, numeric) ==
    [id |-> id, section |-> section, key |-> YAJL_STR(key), numeric |-> numeric]

\* descriptors[] with the rows of KERNEL_MEMORY and MEMORY exchanged
descriptors_swapped ==
    [i \in 0..13 |->
        CASE i = 0 -> Desc(BLKIO_WEIGHT, 0, "weight", 1)
          [] i = 1 -> Desc(CPU_PERIOD, 1, "period", 1)
          [] i = 2 -> Desc(CPU_QUOTA, 1, "quota", 1)
          [] i = 3 -> Desc(CPU_SHARE, 1, "share", 1)
          [] i = 4 -> Desc(CPU_RT_PERIOD, 1, "realtimePeriod", 1)
          [] i = 5 -> Desc(CPU_RT_RUNTIME, 1, "realtimeRuntime", 1)
          [] i = 6 -> Desc(CPUSET_CPUS, 1, "cpus", 0)
          [] i = 7 -> Desc(CPUSET_MEMS, 1, "mems", 0)
          [] i = 8 -> Desc(MEMORY, 2, "limit", 1)
          [] i = 9 -> Desc(KERNEL_MEMORY_TCP, 2, "kernelTCP", 1)
          [] i = 10 -> Desc(KERNEL_MEMORY, 2, "kernel", 1)
          [] i = 11 -> Desc(MEMORY_RESERVATION, 2, "reservation", 1)
          [] i = 12 -> Desc(MEMORY_SWAP, 2, "swap", 1)
          [] i = 13 -> Desc(PIDS_LIMIT, 3, "limit", 1)]

\* descriptors[], 0-based as in C, without the terminating { 0 } entry
descriptors ==
    [i \in 0..13 |->
        CASE i = 0 -> Desc(BLKIO_WEIGHT, 0, "weight", 1)
          [] i = 1 -> Desc(CPU_PERIOD, 1, "period", 1)
          [] i = 2 -> Desc(CPU_QUOTA, 1, "quota", 1)
          [] i = 3 -> Desc(CPU_SHARE, 1, "share", 1)
          [] i = 4 -> Desc(CPU_RT_PERIOD, 1, "realtimePeriod", 1)
          [] i = 5 -> Desc(CPU_RT_RUNTIME, 1, "realtimeRuntime", 1)
          [] i = 6 -> Desc(CPUSET_CPUS, 1, "cpus", 0)
          [] i = 7 -> Desc(CPUSET_MEMS, 1, "mems", 0)
          [] i = 8 -> Desc(KERNEL_MEMORY, 2, "kernel", 1)
          [] i = 9 -> Desc(KERNEL_MEMORY_TCP, 2, "kernelTCP", 1)
          [] i = 10 -> Desc(MEMORY, 2, "limit", 1)
          [] i = 11 -> Desc(MEMORY_RESERVATION, 2, "reservation", 1)
          [] i = 12 -> Desc(MEMORY_SWAP, 2, "swap", 1)
          [] i = 13 -> Desc(PIDS_LIMIT, 3, "limit", 1)]

\* the indices of values[]
ValueIdx == 0..(LAST_VALUE - FIRST_VALUE - 1)

\* set_value: the array after values[id - FIRST_VALUE] = value
set_value(vals, id, value) == [vals EXCEPT ![id - FIRST_VALUE] = value]

(***************************************************************************)
(* strtoul (s, NULL, 10) and the conversion of its result to long.         *)
(***************************************************************************)
Digits == { "0", "1", "2", "3", "4", "5", "6", "7", "8", "9" }

DigitVal(c) ==
    CASE c = "0" -> 0 [] c = "1" -> 1 [] c = "2" -> 2 [] c = "3" -> 3
      [] c = "4" -> 4 [] c = "5" -> 5 [] c = "6" -> 6 [] c = "7" -> 7
      [] c = "8" -> 8 [] c = "9" -> 9

IsSpace(c) == c \in { " ", "\t", "\n" }

RECURSIVE SkipSpace(_, _)
SkipSpace(s, i) ==
    IF i <= Len(s) /\ IsSpace(s[i]) THEN SkipSpace(s, i + 1) ELSE i

\* the digits from position i on: [n: how many, acc: their value, saturated
\* above ULONG_MAX, over: the value does not fit unsigned long]
RECURSIVE ScanDigits(_, _, _)
ScanDigits(s, i, st) ==
    IF i <= Len(s) /\ s[i] \in Digits
    THEN LET v == st.acc * 10 + DigitVal(s[i])
         IN ScanDigits(s, i + 1,
                [n |-> st.n + 1,
                 acc |-> IF v > ULONG_MAX THEN ULONG_MAX ELSE v,
                 over |-> st.over \/ v > ULONG_MAX])
    ELSE st

\* strtoul (s, NULL, 10) called with errno = 0: [val, errno].  With no digits
\* to convert the C library returns 0 and may or may not set EINVAL; einval
\* says which this C library does.
strtoul(s, einval) ==
    LET i == SkipSpace(s, 1)
        neg == i <= Len(s) /\ s[i] = "-"
        j == IF i <= Len(s) /\ s[i] \in { "-", "+" } THEN i + 1 ELSE i
        d == ScanDigits(s, j, [n |-> 0, acc |-> 0, over |-> FALSE])
    IN  IF d.n = 0 THEN [val |-> 0, errno |-> IF einval THEN "EINVAL" ELSE "0"]
        ELSE IF d.over THEN [val |-> ULONG_MAX, errno |-> "ERANGE"]
        ELSE IF neg THEN [val |-> (ULONG_MAX + 1 - d.acc) % (ULONG_MAX + 1), errno |-> "0"]
        ELSE [val |-> d.acc, errno |-> "0"]

\* long value = <unsigned long>
ToLong(u) == IF u > LONG_MAX THEN u - (ULONG_MAX + 1) ELSE u

(***************************************************************************)
(* The generator calls of build_file.                                      *)
(***************************************************************************)
MapOpen == [t |-> "map_open", s |-> <<>>, n |-> 0]
MapClose == [t |-> "map_close", s |-> <<>>, n |-> 0]
GenString(s) == [t |-> "string", s |-> s, n |-> 0]
GenInteger(n) == [t |-> "integer", s |-> <<>>, n |-> n]

\* has_sections[] had the loop of update.c:136-138 been left out
has_sections_second_loop_only(vals) ==
    [s \in 0..(n_sections - 1) |->
        \E i \in 0..(n_sections - 1) : vals[i] # NULL /\ descriptors[i].section = s]

\* has_sections[] after the two loops of update.c:136-144
has_sections(vals) ==
    [s \in 0..(n_sections - 1) |->
        \/ \E i \in ValueIdx : vals[i] # NULL /\ descriptors[i].section = s
        \/ \E i \in 0..(n_sections - 1) : vals[i] # NULL /\ descriptors[i].section = s]

\* the body of the inner loop for descriptor j inside section i, update.c:162-178
GenField(vals, i, j, einval) ==
    LET d == descriptors[j] IN
    IF vals[j] = NULL \/ d.section # i THEN [out |-> <<>>, err |-> FALSE]
    ELSE IF d.numeric = 0
         THEN [out |-> <<GenString(d.key), GenString(vals[j])>>, err |-> FALSE]
         ELSE LET r == strtoul(vals[j], einval) IN
              IF r.errno # "0" THEN [out |-> <<GenString(d.key)>>, err |-> TRUE]
              ELSE [out |-> <<GenString(d.key), GenInteger(ToLong(r.val))>>, err |-> FALSE]

\* the inner loop had it emitted the later descriptors first
RECURSIVE GenFields_backwards(_, _, _, _)
GenFields_backwards(vals, i, j, einval) ==
    IF j >= LAST_VALUE - FIRST_VALUE THEN [out |-> <<>>, err |-> FALSE]
    ELSE LET fld == GenField(vals, i, j, einval) IN
         IF fld.err THEN fld
         ELSE LET rest == GenFields_backwards(vals, i, j + 1, einval)
              IN [out |-> rest.out \o fld.out, err |-> rest.err]

\* the inner loop, update.c:160-179, from descriptor j on
RECURSIVE GenFields(_, _, _, _)
GenFields(vals, i, j, einval) ==
    IF j >= LAST_VALUE - FIRST_VALUE THEN [out |-> <<>>, err |-> FALSE]
    ELSE LET fld == GenField(vals, i, j, einval) IN
         IF fld.err THEN fld
         ELSE LET rest == GenFields(vals, i, j + 1, einval)
              IN [out |-> fld.out \o rest.out, err |-> rest.err]

\* the outer loop, update.c:150-182, from section i on
RECURSIVE GenSections(_, _, _)
GenSections(vals, i, einval) ==
    IF i >= n_sections THEN [out |-> <<>>, err |-> FALSE]
    ELSE IF ~has_sections(vals)[i] THEN GenSections(vals, i + 1, einval)
    ELSE LET flds == GenFields(vals, i, 0, einval) IN
         IF flds.err THEN [out |-> <<GenString(sections[i]), MapOpen>> \o flds.out, err |-> TRUE]
         ELSE LET rest == GenSections(vals, i + 1, einval)
              IN [out |-> <<GenString(sections[i]), MapOpen>> \o flds.out \o <<MapClose>> \o rest.out,
                  err |-> rest.err]

\* build_file: [out: the generator calls made, err: error (EXIT_FAILURE, ...) was called]
build_file(vals, einval) ==
    LET g == GenSections(vals, 0, einval) IN
    IF g.err THEN [out |-> <<MapOpen>> \o g.out, err |-> TRUE]
    ELSE [out |-> <<MapOpen>> \o g.out \o <<MapClose>>, err |-> FALSE]

(***************************************************************************)
(* The update command.                                                     *)
(***************************************************************************)
\* the keys argp_parse hands to parse_opt
Keys == (FIRST_VALUE - 1)..LAST_VALUE \cup { KEY_r, ARGP_KEY_ARG, ARGP_KEY_NO_ARGS }

OptionIds == FIRST_VALUE..(LAST_VALUE - 1)

UInit ==
    /\ values = [i \in ValueIdx |-> NULL]
    /\ resources = NULL
    /\ upc = "argp"
    /\ nopts = 0
    /\ lastRet = "0"
    /\ reordered = FALSE
    /\ status = "running"
    /\ called = "none"
    /\ content = <<>>

\* parse_opt (key, arg, state), update.c:191-225
parse_opt(key, arg) ==
    /\ upc = "argp"
    /\ nopts < MaxArgs
    /\ nopts' = nopts + 1
    /\ \/ /\ key = KEY_r
          /\ arg \in Paths
          /\ resources' = arg
          /\ lastRet' = "0"
          /\ UNCHANGED <<values, reordered, upc, status>>
       \/ /\ key = ARGP_KEY_NO_ARGS
          /\ upc' = "done"
          /\ status' = "exit_failure"
          /\ UNCHANGED <<values, resources, reordered, lastRet>>
       \/ /\ key \in OptionIds
          /\ arg \in RawValues
          /\ values' = set_value(values, key, arg)
          /\ reordered' = (reordered \/ \E j \in ValueIdx : j > key - FIRST_VALUE /\ values[j] # NULL)
          /\ lastRet' = "0"
          /\ UNCHANGED <<resources, upc, status>>
       \/ /\ key \notin OptionIds \cup { KEY_r, ARGP_KEY_NO_ARGS }
          /\ lastRet' = "ARGP_ERR_UNKNOWN"
          /\ UNCHANGED <<values, resources, reordered, upc, status>>
    /\ UNCHANGED <<called, content>>
    /\ UNCHANGED <<pvars, svars, fvars>>

ParseOpt == \E key \in Keys : \E arg \in RawValues \cup Paths : parse_opt(key, arg)

\* crun_command_update after argp_parse, update.c:237-249, with n_args
\* arguments left after the options
crun_command_update(n_args, init_ret, einval) ==
    /\ upc = "argp"
    /\ upc' = "done"
    /\ IF n_args # 1
       THEN /\ status' = "exit_failure"
            /\ UNCHANGED <<called, content>>
       ELSE IF init_ret < 0
       THEN /\ status' = "init_error"
            /\ UNCHANGED <<called, content>>
       ELSE IF resources = NULL
            THEN LET b == build_file(values, einval) IN
                 IF b.err
                 THEN /\ status' = "exit_failure"
                      /\ UNCHANGED <<called, content>>
                 ELSE /\ status' = "returned"
                      /\ called' = "libcrun_container_update"
                      /\ content' = b.out
            ELSE /\ status' = "returned"
                 /\ called' = "libcrun_container_update_from_file"
                 /\ UNCHANGED content
    /\ UNCHANGED <<values, resources, nopts, lastRet, reordered>>
    /\ UNCHANGED <<pvars, svars, fvars>>

CommandUpdate ==
    \E n_args \in { 1, 2 } : \E init_ret \in { -1, 0 } : \E einval \in BOOLEAN :
        crun_command_update(n_args, init_ret, einval)

(***************************************************************************)
(* The Document of the design (section 3 and 4.1): what the options say,   *)
(* and what a reader of the canonical document gets back.                  *)
(***************************************************************************)
\* the text is an unsigned base-10 integer: digits only, at least one
IsUnsignedDecimal(s) == Len(s) > 0 /\ \A k \in 1..Len(s) : s[k] \in Digits

\* the integer a digit string writes
RECURSIVE DecimalValue(_)
DecimalValue(s) ==
    IF s = <<>> THEN 0
    ELSE 10 * DecimalValue(SubSeq(s, 1, Len(s) - 1)) + DigitVal(s[Len(s)])

Unset == [kind |-> "unset", s |-> <<>>, n |-> 0]

\* parseFromOptions: the Document an assignment of the options stands for
parseFromOptions(vals) ==
    [i \in ValueIdx |->
        IF vals[i] = NULL THEN Unset
        ELSE IF descriptors[i].numeric = 0 THEN [kind |-> "string", s |-> vals[i], n |-> 0]
        ELSE [kind |-> "number", s |-> <<>>, n |-> DecimalValue(vals[i])]]

\* the options form a Document: every numeric one is an unsigned base-10
\* integer in the range of unsigned long
OptionsValid(vals) ==
    \A i \in ValueIdx :
        (vals[i] # NULL /\ descriptors[i].numeric = 1) =>
            IsUnsignedDecimal(vals[i]) /\ DecimalValue(vals[i]) <= ULONG_MAX

\* one step of a reader of a two-level map: the section keys in order (secs)
\* and the fields in order (ents), each with its section, key and value
ReadStep(st, tk) ==
    CASE st.depth = 0 ->
            IF tk.t = "map_open" THEN [st EXCEPT !.depth = 1] ELSE st
      [] st.depth = 1 ->
            IF tk.t = "string" THEN [st EXCEPT !.sec = tk.s, !.secs = Append(@, tk.s)]
            ELSE IF tk.t = "map_open" THEN [st EXCEPT !.depth = 2]
            ELSE IF tk.t = "map_close" THEN [st EXCEPT !.depth = 0]
            ELSE st
      [] st.depth = 2 ->
            IF st.key = NULL
            THEN IF tk.t = "string" THEN [st EXCEPT !.key = tk.s]
                 ELSE IF tk.t = "map_close" THEN [st EXCEPT !.depth = 1]
                 ELSE st
            ELSE [st EXCEPT !.key = NULL,
                            !.ents = Append(@, [sec |-> st.sec, key |-> st.key, val |-> tk])]

RECURSIVE ReadFrom(_, _, _)
ReadFrom(toks, i, st) ==
    IF i > Len(toks) THEN st ELSE ReadFrom(toks, i + 1, ReadStep(st, toks[i]))

Read(toks) ==
    ReadFrom(toks, 1, [depth |-> 0, sec |-> NULL, key |-> NULL, secs |-> <<>>, ents |-> <<>>])

\* the entries of a read document that sit under descriptor i's section and key
EntriesOf(p, i) ==
    { k \in 1..Len(p.ents) :
        /\ p.ents[k].sec = sections[descriptors[i].section]
        /\ p.ents[k].key = descriptors[i].key }

\* parse: the Document a reader builds from the canonical document
parse(toks) ==
    LET p == Read(toks) IN
    [i \in ValueIdx |->
        IF EntriesOf(p, i) = {} THEN Unset
        ELSE LET tk == p.ents[CHOOSE k \in EntriesOf(p, i) : TRUE].val IN
             IF tk.t = "integer" THEN [kind |-> "number", s |-> <<>>, n |-> tk.n]
             ELSE [kind |-> "string", s |-> tk.s, n |-> 0]]

\* the command built a document from the options and handed it to libcrun
Built == upc = "done" /\ called = "libcrun_container_update"

SetIdx == { i \in ValueIdx : values[i] # NULL }

(***************************************************************************)
(* C1: build_file emits a section key iff a field of that section is set,  *)
(* inside a section a field key iff that field is set (each once, and no   *)
(* other key), and with no option set the output is the empty map.         *)
(***************************************************************************)
C1_EmitsExactlySetKeys ==
    Built =>
        LET p == Read(content) IN
        /\ \A s \in 0..(n_sections - 1) :
              Cardinality({ k \in 1..Len(p.secs) : p.secs[k] = sections[s] })
                = IF \E i \in SetIdx : descriptors[i].section = s THEN 1 ELSE 0
        /\ Len(p.secs) <= n_sections
        /\ \A i \in ValueIdx :
              Cardinality(EntriesOf(p, i)) = IF i \in SetIdx THEN 1 ELSE 0
        /\ Len(p.ents) = Cardinality(SetIdx)
        /\ SetIdx = {} => content = <<MapOpen, MapClose>>

\* a memory field is set, the other memory fields and all of cpu are not
C1_Witness ==
    /\ Built
    /\ values[10] # NULL
    /\ values[13] # NULL
    /\ \A i \in 1..9 : values[i] = NULL
    /\ Len(content) = 12

(***************************************************************************)
(* C2: whatever the order the options were given in, the sections come in  *)
(* the order blockIO, cpu, memory, pids and the fields of a section in the *)
(* order of the descriptor table.                                          *)
(***************************************************************************)
SectionNo(p, k) == CHOOSE s \in 0..(n_sections - 1) : sections[s] = p.secs[k]

FieldNo(p, k) ==
    CHOOSE i \in ValueIdx :
        p.ents[k].sec = sections[descriptors[i].section] /\ p.ents[k].key = descriptors[i].key

C2_DescriptorOrder ==
    Built =>
        LET p == Read(content) IN
        /\ \A k \in 1..Len(p.secs) : \A l \in 1..Len(p.secs) :
              k < l => SectionNo(p, k) < SectionNo(p, l)
        /\ \A k \in 1..Len(p.ents) : \A l \in 1..Len(p.ents) :
              k < l => FieldNo(p, k) < FieldNo(p, l)

\* --memory-swap was given before --kernel-memory
C2_Witness ==
    /\ Built
    /\ reordered
    /\ values[12] # NULL
    /\ values[8] # NULL

(***************************************************************************)
(* C3: when a numeric option is not an unsigned base-10 integer, the       *)
(* command built from options ends in an error and libcrun_container_update*)
(* is never invoked.                                                       *)
(***************************************************************************)
C3_InvalidNumericIsFatal ==
    ( /\ upc = "done"
      /\ resources = NULL
      /\ status # "init_error"
      /\ \E i \in SetIdx : descriptors[i].numeric = 1 /\ ~IsUnsignedDecimal(values[i]) )
    => (status = "exit_failure" /\ called = "none")

(***************************************************************************)
(* C4: round trip: parsing what build_file produced for a Document built   *)
(* from the options gives that Document back.                              *)
(***************************************************************************)
C4_RoundTrip ==
    (Built /\ OptionsValid(values)) => parse(content) = parseFromOptions(values)

(***************************************************************************)
(* C5: a numeric field is emitted as the number its option writes, for     *)
(* every value from 0 to the maximum unsigned long; cpus and mems are      *)
(* emitted as strings equal to the option text.                            *)
(***************************************************************************)
C5_NumbersAndStrings ==
    Built =>
        LET p == Read(content) IN
        \A i \in SetIdx : \A k \in EntriesOf(p, i) :
            IF descriptors[i].numeric = 0
            THEN p.ents[k].val = GenString(values[i])
            ELSE (IsUnsignedDecimal(values[i]) /\ DecimalValue(values[i]) <= ULONG_MAX)
                    => p.ents[k].val = GenInteger(DecimalValue(values[i]))

(***************************************************************************)
(* C6: a call that gives both --resources and per-field options does not   *)
(* use one source and silently drop the other.                             *)
(***************************************************************************)
C6_OneSource ==
    ( /\ upc = "done"
      /\ resources # NULL
      /\ SetIdx # {} )
    => called = "none"

(***************************************************************************)
(* C7: the descriptor table is aligned with values[] (descriptors[i].id =  *)
(* FIRST_VALUE + i, section inside sections[]), the value stored for       *)
(* option id X is serialized under the descriptor whose id is X, and a key *)
(* parse_opt does not know is answered ARGP_ERR_UNKNOWN and stores         *)
(* nothing.                                                                *)
(***************************************************************************)
DescriptorOf(id) == descriptors[CHOOSE i \in ValueIdx : descriptors[i].id = id]

C7_TableAligned ==
    /\ \A id \in OptionIds : Cardinality({ i \in ValueIdx : descriptors[i].id = id }) = 1
    /\ \A i \in ValueIdx :
          /\ descriptors[i].id = FIRST_VALUE + i
          /\ descriptors[i].section \in 0..(n_sections - 1)

C7_OwnDescriptor ==
    Built =>
        LET p == Read(content) IN
        \A id \in OptionIds :
            values[id - FIRST_VALUE] # NULL =>
                \E k \in 1..Len(p.ents) :
                    /\ p.ents[k].sec = sections[DescriptorOf(id).section]
                    /\ p.ents[k].key = DescriptorOf(id).key
                    /\ p.ents[k].val.t = (IF DescriptorOf(id).numeric = 0 THEN "string" ELSE "integer")
                    /\ \E einval \in BOOLEAN :
                          p.ents[k].val \in
                              { GenString(values[id - FIRST_VALUE]),
                                GenInteger(ToLong(strtoul(values[id - FIRST_VALUE], einval).val)) }

\* every parse_opt call stores at most one thing, and a call answered
\* ARGP_ERR_UNKNOWN none: what is stored never outnumbers the other calls
C7_UnknownStoresNothing ==
    LET stored == Cardinality(SetIdx) + (IF resources # NULL THEN 1 ELSE 0) IN
    /\ stored <= nopts
    /\ lastRet = "ARGP_ERR_UNKNOWN" => stored <= nopts - 1

PStart(Builds, Kernels) ==
    /\ have_seccomp \in Builds
    /\ kernel \in Kernels
    /\ ppc = "start"
    /\ cpc = "none"
    /\ nnp = FALSE
    /\ installs = <<>>
    /\ ret = 0
    /\ wstatus = "none"
    /\ eintr = 0
    /\ reaped = FALSE
    /\ exitcode = -1

PInit == PStart(BOOLEAN, [listener : BOOLEAN, nnp : BOOLEAN, stdin : BOOLEAN])

\* the probe is not run
PIdle == PStart({ TRUE }, { [listener |-> TRUE, nnp |-> TRUE, stdin |-> TRUE] })

\* the lowest free descriptor of the child: 0 when the probe was started
\* with standard input closed, else the first one after the standard three
LowestFreeFd == IF kernel.stdin THEN 3 ELSE 0

\* seccomp (SECCOMP_SET_MODE_FILTER, SECCOMP_FILTER_FLAG_NEW_LISTENER, ...):
\* the new descriptor, -1 when the kernel refuses
syscall_seccomp(has_nnp) ==
    IF kernel.listener /\ has_nnp THEN LowestFreeFd ELSE -1

\* #ifdef HAVE_SECCOMP is false: return 1, init.c:410
ProbeNoSeccomp ==
    /\ ppc = "start"
    /\ ~have_seccomp
    /\ ppc' = "exited"
    /\ exitcode' = 1
    /\ UNCHANGED <<have_seccomp, kernel, cpc, nnp, installs, ret, wstatus, eintr, reaped>>
    /\ UNCHANGED <<uvars, svars, fvars>>

\* p = fork (), init.c:379-381
ProbeFork ==
    /\ ppc = "start"
    /\ have_seccomp
    /\ \E p \in { -1, 1 } :
          IF p < 0
          THEN /\ ppc' = "exited"
               /\ exitcode' = 1
               /\ UNCHANGED cpc
          ELSE /\ ppc' = "wait"
               /\ cpc' = "prctl"
               /\ UNCHANGED exitcode
    /\ UNCHANGED <<have_seccomp, kernel, nnp, installs, ret, wstatus, eintr, reaped>>
    /\ UNCHANGED <<uvars, svars, fvars>>

\* the child: prctl (PR_SET_NO_NEW_PRIVS, 1, 0, 0, 0), init.c:400-401
ChildPrctl ==
    /\ cpc = "prctl"
    /\ IF kernel.nnp
       THEN /\ nnp' = TRUE
            /\ cpc' = "seccomp"
            /\ UNCHANGED wstatus
       ELSE /\ cpc' = "exited"
            /\ wstatus' = "exit1"
            /\ UNCHANGED nnp
    /\ UNCHANGED <<have_seccomp, kernel, ppc, installs, ret, eintr, reaped, exitcode>>
    /\ UNCHANGED <<uvars, svars, fvars>>

\* the child: the install and the two returns, init.c:403-407
child_install(r) ==
    /\ cpc = "seccomp"
    /\ ret' = r
    /\ installs' = Append(installs, [nnp |-> nnp, fd |-> r])
    /\ cpc' = "exited"
    /\ wstatus' = IF r <= 0 THEN "exit1" ELSE "exit0"
    /\ UNCHANGED <<have_seccomp, kernel, ppc, nnp, eintr, reaped, exitcode>>
    /\ UNCHANGED <<uvars, svars, fvars>>

ChildInstall == child_install(syscall_seccomp(nnp))

\* the child is killed by a signal before it returns
ChildKilled ==
    /\ cpc \in { "prctl", "seccomp" }
    /\ cpc' = "killed"
    /\ wstatus' = "signaled"
    /\ UNCHANGED <<have_seccomp, kernel, ppc, nnp, installs, ret, eintr, reaped, exitcode>>
    /\ UNCHANGED <<uvars, svars, fvars>>

\* the parent: the waitpid loop and the returns, init.c:385-391
ParentWait ==
    /\ ppc = "wait"
    /\ \/ \* waitpid is interrupted: ret < 0 && errno == EINTR, once more
          /\ eintr < MaxEintr
          /\ eintr' = eintr + 1
          /\ UNCHANGED <<ppc, reaped, exitcode>>
       \/ \* waitpid fails for another reason
          /\ ppc' = "exited"
          /\ exitcode' = 1
          /\ UNCHANGED <<eintr, reaped>>
       \/ \* waitpid returns p
          /\ cpc \in { "exited", "killed" }
          /\ reaped' = TRUE
          /\ ppc' = "exited"
          /\ exitcode' = IF wstatus = "exit0" THEN 0 ELSE 1
          /\ UNCHANGED eintr
    /\ UNCHANGED <<have_seccomp, kernel, cpc, nnp, installs, ret, wstatus>>
    /\ UNCHANGED <<uvars, svars, fvars>>

PNext == ProbeNoSeccomp \/ ProbeFork \/ ChildPrctl \/ ChildInstall \/ ChildKilled \/ ParentWait

(***************************************************************************)
(* C8: the probe exits 0 iff the child set no-new-privileges and then the  *)
(* install with the new-listener flag succeeded and yielded a notification *)
(* descriptor, the child then ending of its own accord and being reaped;   *)
(* no install is attempted before no-new-privileges is set.                *)
(***************************************************************************)
ListenerInstalled ==
    \E k \in 1..Len(installs) : installs[k].nnp /\ installs[k].fd >= 0

C8_ProbeContract ==
    /\ \A k \in 1..Len(installs) : installs[k].nnp
    /\ ppc = "exited" =>
          (exitcode = 0 <=>
              (have_seccomp /\ nnp /\ ListenerInstalled /\ cpc = "exited" /\ reaped))

(***************************************************************************)
(* The notification session of the design, section 4.4 and 5.              *)
(***************************************************************************)
Ids == 1..MaxNotifications

Causes == { "exit", "disconnect", "stop" }

SInit ==
    /\ sstate = "Uninstalled"
    /\ snnp = FALSE
    /\ descriptor = "none"
    /\ nextId = 1
    /\ pending = {}
    /\ verdict = [i \in Ids |-> "none"]
    /\ teardown = "none"
    /\ atTeardown = {}

\* the monitored process sets no-new-privileges
SetNoNewPrivs ==
    /\ sstate = "Uninstalled"
    /\ ~snnp
    /\ snnp' = TRUE
    /\ UNCHANGED <<sstate, descriptor, nextId, pending, verdict, teardown, atTeardown>>
    /\ UNCHANGED <<uvars, pvars, fvars>>

\* Uninstalled -> ListenerInstalled; without no-new-privileges, or on a kernel
\* without the capability, the install fails with ListenerUnsupported
Install ==
    /\ sstate = "Uninstalled"
    /\ \E supported \in BOOLEAN :
          IF snnp /\ supported
          THEN /\ sstate' = "ListenerInstalled"
               /\ descriptor' = "bridge"
          ELSE /\ sstate' = "Closed"
               /\ UNCHANGED descriptor
    /\ UNCHANGED <<snnp, nextId, pending, verdict, teardown, atTeardown>>
    /\ UNCHANGED <<uvars, pvars, fvars>>

\* ListenerInstalled -> Brokering: the descriptor moves to the agent
Handoff ==
    /\ sstate = "ListenerInstalled"
    /\ teardown = "none"
    /\ sstate' = "Brokering"
    /\ descriptor' = "agent"
    /\ UNCHANGED <<snnp, nextId, pending, verdict, teardown, atTeardown>>
    /\ UNCHANGED <<uvars, pvars, fvars>>

\* the kernel issues a notification, ids increasing
Notify ==
    /\ sstate = "Brokering"
    /\ teardown = "none"
    /\ nextId <= MaxNotifications
    /\ pending' = pending \cup { nextId }
    /\ nextId' = nextId + 1
    /\ UNCHANGED <<sstate, snnp, descriptor, verdict, teardown, atTeardown>>
    /\ UNCHANGED <<uvars, pvars, fvars>>

\* the agent's verdict for id is applied, in any order; a verdict for an id
\* the kernel has invalidated is logged as stale and never retried
Verdict(id) ==
    /\ sstate = "Brokering"
    /\ teardown = "none"
    /\ id \in pending
    /\ \E v \in { "continue", "errno", "trap", "stale" } :
          verdict' = [verdict EXCEPT ![id] = v]
    /\ pending' = pending \ { id }
    /\ UNCHANGED <<sstate, snnp, descriptor, nextId, teardown, atTeardown>>
    /\ UNCHANGED <<uvars, pvars, fvars>>

AgentVerdict == \E id \in Ids : Verdict(id)

\* container exit, agent disconnect or explicit stop: the teardown begins
BeginTeardown ==
    /\ sstate \in { "ListenerInstalled", "Brokering" }
    /\ teardown = "none"
    /\ \E c \in Causes : teardown' = c
    /\ atTeardown' = pending
    /\ UNCHANGED <<sstate, snnp, descriptor, nextId, pending, verdict>>
    /\ UNCHANGED <<uvars, pvars, fvars>>

\* the drain: one pending notification gets the default-deny verdict
DenyPending ==
    /\ teardown # "none"
    /\ descriptor # "released"
    /\ \E id \in pending :
          /\ verdict' = [verdict EXCEPT ![id] = "deny"]
          /\ pending' = pending \ { id }
    /\ UNCHANGED <<sstate, snnp, descriptor, nextId, teardown, atTeardown>>
    /\ UNCHANGED <<uvars, pvars, fvars>>

\* Release had it not waited for the drain
ReleaseAtOnce ==
    /\ teardown # "none"
    /\ descriptor \in { "bridge", "agent" }
    /\ descriptor' = "released"
    /\ sstate' = "Closed"
    /\ UNCHANGED <<snnp, nextId, pending, verdict, teardown, atTeardown>>
    /\ UNCHANGED <<uvars, pvars, fvars>>

\* -> Closed: the descriptor is released once nothing is pending
Release ==
    /\ teardown # "none"
    /\ descriptor \in { "bridge", "agent" }
    /\ pending = {}
    /\ descriptor' = "released"
    /\ sstate' = "Closed"
    /\ UNCHANGED <<snnp, nextId, pending, verdict, teardown, atTeardown>>
    /\ UNCHANGED <<uvars, pvars, fvars>>

SNext ==
    SetNoNewPrivs \/ Install \/ Handoff \/ Notify \/ AgentVerdict \/ BeginTeardown
        \/ DenyPending \/ Release

(***************************************************************************)
(* C9: when a session is torn down, every notification pending at that     *)
(* moment has its default-deny verdict before the descriptor is released,  *)
(* and no notification is left without a verdict.                          *)
(***************************************************************************)
C9_DrainBeforeRelease ==
    descriptor = "released" =>
        /\ pending = {}
        /\ \A id \in atTeardown : verdict[id] = "deny"
        /\ \A id \in Ids : id < nextId => verdict[id] # "none"

\* a session released after a teardown that found two notifications pending
C9_Witness ==
    /\ descriptor = "released"
    /\ Cardinality(atTeardown) >= 2
    /\ teardown = "disconnect"

(***************************************************************************)
(* The spec command, crun_command_spec, spec.c:69-96, and the other        *)
(* processes that share its directory.                                     *)
(***************************************************************************)
\* the spec command before it runs, as a user of Euids with config.json in one
\* of the states Configs
FStart(Euids, Configs) ==
    /\ euid \in Euids
    /\ fpc = "start"
    /\ config \in Configs
    /\ f = "NULL"
    /\ fret = 0
    /\ closes = 0
    /\ overwrote = FALSE
    /\ others = 0
    /\ result = "none"

FInit == FStart({ 0, 1000 }, { "absent", "theirs" })

\* the spec command is not run
FIdle == FStart({ 0 }, { "absent" })

\* the scope exit of cleanup_file FILE *f: the number of fclose calls it makes,
\* one if f is not NULL (fclose (f) leaves the pointer f as it was)
cleanup_file(stream) == IF stream # "NULL" THEN 1 ELSE 0

\* ret = crun_path_exists ("config.json", 0, err) and the two returns, spec.c:82-86
PathExists ==
    /\ fpc = "start"
    /\ \E r \in { -1, IF config = "absent" THEN 0 ELSE 1 } :
          /\ fret' = r
          /\ IF r # 0
             THEN /\ fpc' = "returned"
                  /\ result' = "error"
                  /\ closes' = closes + cleanup_file(f)
             ELSE /\ fpc' = "checked"
                  /\ UNCHANGED <<result, closes>>
    /\ UNCHANGED <<euid, config, f, overwrote, others>>
    /\ UNCHANGED <<uvars, pvars, svars>>

\* f = fopen ("config.json", "w+") and the return on NULL, spec.c:88-90
Fopen ==
    /\ fpc = "checked"
    /\ \E ok \in BOOLEAN :
          IF ok
          THEN /\ f' = "open"
               /\ config' = "empty"
               /\ overwrote' = (overwrote \/ config # "absent")
               /\ fpc' = "opened"
               /\ UNCHANGED <<result, closes>>
          ELSE /\ fpc' = "returned"
               /\ result' = "error"
               /\ closes' = closes + cleanup_file(f)
               /\ UNCHANGED <<f, config, overwrote>>
    /\ UNCHANGED <<euid, fret, others>>
    /\ UNCHANGED <<uvars, pvars, svars>>

\* ret = libcrun_container_spec (geteuid (), f, err), spec.c:92; what it writes
\* reaches config.json only while that name still is the file f was opened on
ContainerSpec ==
    /\ fpc = "opened"
    /\ \E r \in { -1, 0 } :
          /\ fret' = r
          /\ config' = IF config # "empty" THEN config
                       ELSE IF r < 0 THEN "partial"
                       ELSE IF euid = 0 THEN "spec" ELSE "rootless spec"
    /\ fpc' = "written"
    /\ UNCHANGED <<euid, f, closes, overwrote, others, result>>
    /\ UNCHANGED <<uvars, pvars, svars>>

\* fclose (f); return ret >= 0 ? 0 : ret; and the scope exit, spec.c:93-95
FcloseReturn ==
    /\ fpc = "written"
    /\ f' = "closed"
    /\ closes' = closes + 1 + cleanup_file("closed")
    /\ result' = IF fret >= 0 THEN "ok" ELSE "error"
    /\ fpc' = "returned"
    /\ UNCHANGED <<euid, config, fret, overwrote, others>>
    /\ UNCHANGED <<uvars, pvars, svars>>

\* another process removes config.json, or puts a file of its own there
OtherProcess ==
    /\ others < MaxOthers
    /\ others' = others + 1
    /\ \E c \in { "absent", "theirs" } : c # config /\ config' = c
    /\ UNCHANGED <<euid, fpc, f, fret, closes, overwrote, result>>
    /\ UNCHANGED <<uvars, pvars, svars>>

FNext == PathExists \/ Fopen \/ ContainerSpec \/ FcloseReturn \/ OtherProcess

(***************************************************************************)
(* C10: the spec command never overwrites or truncates a config.json that  *)
(* exists, also when another process creates it between the existence      *)
(* check and the open.                                                     *)
(***************************************************************************)
C10_NeverOverwrites == ~overwrote

(***************************************************************************)
(* C11: on every return path of the spec command the stream it opened is   *)
(* closed exactly once, by the explicit fclose and the cleanup_file scope  *)
(* exit together: never left open, never closed twice (and a stream that   *)
(* was never opened is not closed at all).                                 *)
(***************************************************************************)
C11_ClosedExactlyOnce ==
    fpc = "returned" => closes = (IF f = "NULL" THEN 0 ELSE 1)

(***************************************************************************)
(* The specifications: one per program.                                    *)
(***************************************************************************)
Init == UInit /\ PIdle /\ SInit /\ FIdle

Next == ParseOpt \/ CommandUpdate

\* the update command
Spec == Init /\ [][Next]_vars

\* the seccomp-listener probe
InitProbe == UInit /\ PInit /\ SInit /\ FIdle

SpecProbe == InitProbe /\ [][PNext]_vars

\* the notification session
SpecSession == Init /\ [][SNext]_vars

\* the spec command
InitCmd == UInit /\ PIdle /\ SInit /\ FInit

SpecCmd == InitCmd /\ [][FNext]_vars

====
